---- MODULE Spec2Model ----
(***************************************************************************)
(* Model of src/main.py (clipboard QR tool): one run of the script, from   *)
(* the dispatch on sys.argv to process exit.  Text is a sequence of code   *)
(* points, a QR payload a sequence of bytes.  Every external call          *)
(* (clipboard, PIL, pyzbar, qrcode, win32clipboard, pbcopy, pyperclip)     *)
(* picks its outcome when it is made: it returns, raises an Exception, or  *)
(* is interrupted by the user (KeyboardInterrupt).                         *)
(***************************************************************************)
EXTENDS Integers, Sequences, FiniteSets, TLC

VARIABLES pc, argv, mode, content, grabbed, opened, img, decoded, results,
          log, printed, clipText, confirmCount, encText, curr_os, handle,
          opens, closes, clipImage, writerOutcome, exc, failed, exitCode

vars == <<pc, argv, mode, content, grabbed, opened, img, decoded, results,
          log, printed, clipText, confirmCount, encText, curr_os, handle,
          opens, closes, clipImage, writerOutcome, exc, failed, exitCode>>

decodeVars == <<grabbed, opened, img, decoded, results, clipText, confirmCount>>
encodeVars == <<encText, curr_os, handle, opens, closes, clipImage, writerOutcome>>

\* ---------------------------------------------------------------- bounds
MaxArgs == 2
MaxPaths == 2
MaxSymbols == 2
MaxBytes == 3

\* ---------------------------------------------------------------- text
Space == 32
Newline == 10

hello == <<104, 101, 108, 108, 111>>
world == <<119, 111, 114, 108, 100>>
Args == {hello, world, <<>>}

RECURSIVE SeqsUpTo(_, _)
SeqsUpTo(S, n) ==
    IF n = 0 THEN {<<>>}
    ELSE LET shorter == SeqsUpTo(S, n - 1)
         IN  shorter \cup {Append(s, x) : s \in shorter, x \in S}

JoinNoSeparator(parts, sep) ==
    LET RECURSIVE cat(_)
        cat(i) == IF i > Len(parts) THEN <<>> ELSE parts[i] \o cat(i + 1)
    IN  cat(1)

\* sep.join(parts)
Join(parts, sep) ==
    LET RECURSIVE from(_)
        from(i) == IF i > Len(parts) THEN <<>>
                   ELSE IF i = Len(parts) THEN parts[i]
                   ELSE parts[i] \o <<sep>> \o from(i + 1)
    IN  from(1)

\* str.lower() on the ASCII range
Lower(s) == [i \in 1..Len(s) |-> IF s[i] >= 65 /\ s[i] <= 90 THEN s[i] + 32 ELSE s[i]]

\* str.endswith(suffix)
EndsWith(s, suf) ==
    /\ Len(s) >= Len(suf)
    /\ SubSeq(s, Len(s) - Len(suf) + 1, Len(s)) = suf

\* ('.png', '.jpg', '.jpeg', '.bmp', '.gif')
ImageExts == { <<46, 112, 110, 103>>, <<46, 106, 112, 103>>,
               <<46, 106, 112, 101, 103>>, <<46, 98, 109, 112>>,
               <<46, 103, 105, 102>> }

ImageExtsNoDot == { <<112, 110, 103>>, <<106, 112, 103>>, <<106, 112, 101, 103>>,
                    <<98, 109, 112>>, <<103, 105, 102>> }

HasImageExtNoDot(p) == \E e \in ImageExtsNoDot : EndsWith(Lower(p), e)

\* img[0].lower().endswith((...))
HasImageExt(p) == \E e \in ImageExts : EndsWith(Lower(p), e)

\* file names that can sit on the clipboard
a_png     == <<97, 46, 112, 110, 103>>
A_PNG     == <<65, 46, 80, 78, 71>>
b_JpG     == <<98, 46, 74, 112, 71>>
c_jpeg    == <<99, 46, 106, 112, 101, 103>>
d_bmp     == <<100, 46, 98, 109, 112>>
e_gif     == <<101, 46, 103, 105, 102>>
f_txt     == <<102, 46, 116, 120, 116>>
png       == <<112, 110, 103>>
g_png_txt == <<103, 46, 112, 110, 103, 46, 116, 120, 116>>
Paths == {a_png, A_PNG, b_JpG, c_jpeg, d_bmp, e_gif, f_txt, png, g_png_txt}
LaterPaths == {a_png, f_txt}

\* file lists: any sample name first, then image and non-image names
FileLists ==
    {<<>>} \cup {<<first>> \o rest : first \in Paths,
                                    rest \in SeqsUpTo(LaterPaths, MaxPaths - 1)}

\* ---------------------------------------------------------------- UTF-8
Utf8Len(b) ==
    IF b < 128 THEN 1
    ELSE IF b >= 194 /\ b <= 223 THEN 2
    ELSE IF b >= 224 /\ b <= 239 THEN 3
    ELSE IF b >= 240 /\ b <= 244 THEN 4
    ELSE 0

Utf8TailOk(bs, i, n) ==
    /\ i + n - 1 <= Len(bs)
    /\ \A k \in 1..(n - 1) : bs[i + k] >= 128 /\ bs[i + k] <= 191
    /\ bs[i] = 224 => bs[i + 1] >= 160
    /\ bs[i] = 237 => bs[i + 1] <= 159
    /\ bs[i] = 240 => bs[i + 1] >= 144
    /\ bs[i] = 244 => bs[i + 1] <= 143

Utf8CodePoint(bs, i, n) ==
    CASE n = 1 -> bs[i]
      [] n = 2 -> (bs[i] - 192) * 64 + (bs[i + 1] - 128)
      [] n = 3 -> (bs[i] - 224) * 4096 + (bs[i + 1] - 128) * 64 + (bs[i + 2] - 128)
      [] n = 4 -> (bs[i] - 240) * 262144 + (bs[i + 1] - 128) * 4096
                  + (bs[i + 2] - 128) * 64 + (bs[i + 3] - 128)

\* bytes.decode('utf-8'): ok is FALSE where Python raises UnicodeDecodeError
Utf8Decode(bs) ==
    LET RECURSIVE from(_)
        from(i) ==
            IF i > Len(bs) THEN [ok |-> TRUE, text |-> <<>>]
            ELSE LET n == Utf8Len(bs[i])
                 IN  IF n = 0 \/ ~Utf8TailOk(bs, i, n)
                     THEN [ok |-> FALSE, text |-> <<>>]
                     ELSE LET rest == from(i + n)
                          IN  IF rest.ok
                              THEN [ok |-> TRUE,
                                    text |-> <<Utf8CodePoint(bs, i, n)>> \o rest.text]
                              ELSE [ok |-> FALSE, text |-> <<>>]
    IN  from(1)

\* payload bytes: 'A', and the two bytes of U+00E9
Bytes == {65, 195, 169}

\* what pyzbar.decode can return for an image: at most n symbols holding at
\* most b payload bytes between them
RECURSIVE SymbolSeqs(_, _)
SymbolSeqs(n, b) ==
    IF n = 0 THEN {<<>>}
    ELSE {<<>>} \cup
         UNION { { <<[type |-> "QRCODE", data |-> p]>> \o rest :
                     rest \in SymbolSeqs(n - 1, b - Len(p)) } :
                 p \in SeqsUpTo(Bytes, b) }

DecodedObjects == SymbolSeqs(MaxSymbols, MaxBytes)

DecodeAllSkipInvalid(objs) ==
    LET RECURSIVE from(_)
        from(i) ==
            IF i > Len(objs) THEN <<>>
            ELSE LET d == Utf8Decode(objs[i].data)
                 IN  IF d.ok THEN <<[type |-> objs[i].type, data |-> d.text]>> \o from(i + 1)
                     ELSE from(i + 1)
    IN  [ok |-> TRUE, items |-> from(1)]

\* the loop of decode_qrcode: ok is FALSE where a payload raises
DecodeAll(objs) ==
    LET RECURSIVE from(_)
        from(i) ==
            IF i > Len(objs) THEN [ok |-> TRUE, items |-> <<>>]
            ELSE LET d == Utf8Decode(objs[i].data)
                 IN  IF ~d.ok THEN [ok |-> FALSE, items |-> <<>>]
                     ELSE LET rest == from(i + 1)
                          IN  IF rest.ok
                              THEN [ok |-> TRUE,
                                    items |-> <<[type |-> objs[i].type, data |-> d.text]>>
                                              \o rest.items]
                              ELSE [ok |-> FALSE, items |-> <<>>]
    IN  from(1)

ResultsDataReversed(items) == [i \in 1..Len(items) |-> items[Len(items) + 1 - i].data]

\* [i['data'] for i in results]
ResultsData(items) == [i \in 1..Len(items) |-> items[i].data]

\* ---------------------------------------------------------------- exceptions
Outcomes == {"ok", "Exception", "KeyboardInterrupt"}

HandlesNothing(e) == FALSE

\* except Exception (get_clipboard_image)
ReaderHandles(e) == e = "Exception"

\* except Exception (decode_qrcode)
DecoderHandles(e) == e = "Exception"

\* except Exception (generate_and_copy_qr)
GenerateHandles(e) == e = "Exception"

\* ---------------------------------------------------------------- clipboard
ClipboardContents ==
    [kind : {"empty", "text", "image"}, paths : {<<>>}]
    \cup [kind : {"files"}, paths : FileLists]

\* ImageGrab.grabclipboard()
GrabClipboard(c) ==
    CASE c.kind \in {"empty", "text"} -> [kind |-> "None", paths |-> <<>>, clip |-> c.kind]
      [] c.kind = "image"             -> [kind |-> "Image", paths |-> <<>>, clip |-> c.kind]
      [] c.kind = "files"             -> [kind |-> "list", paths |-> c.paths, clip |-> c.kind]

NoResults == [isNone |-> TRUE, items |-> <<>>]

Init ==
    /\ pc = "start"
    /\ argv \in SeqsUpTo(Args, MaxArgs)
    /\ mode = "unset"
    /\ content = <<>>
    /\ grabbed = [kind |-> "unset", paths |-> <<>>, clip |-> "unset"]
    /\ opened = <<>>
    /\ img = "unset"
    /\ decoded = <<>>
    /\ results = NoResults
    /\ log = <<>>
    /\ printed = <<>>
    /\ clipText = <<>>
    /\ confirmCount = <<>>
    /\ encText = <<>>
    /\ curr_os = "unset"
    /\ handle = "closed"
    /\ opens = 0
    /\ closes = 0
    /\ clipImage = FALSE
    /\ writerOutcome = "unset"
    /\ exc = "none"
    /\ failed = {}
    /\ exitCode = -1

\* an exception leaves main() for the handlers of the __main__ block
Propagate(site, e) ==
    /\ pc' = "top_handler"
    /\ exc' = e
    /\ failed' = failed \cup {<<site, e>>}

\* main(): if len(sys.argv) > 1
Dispatch ==
    /\ pc = "start"
    /\ IF Len(argv) > 0
       THEN /\ mode' = "Encode"
            /\ content' = Join(argv, Space)
            /\ pc' = "gen_encode"
       ELSE /\ mode' = "Decode"
            /\ content' = content
            /\ pc' = "grab"
    /\ UNCHANGED <<argv, decodeVars, encodeVars, log, printed, exc, failed, exitCode>>

\* get_clipboard_image(): grabclipboard() and the tests on its result
Grab ==
    /\ pc = "grab"
    /\ \E c \in ClipboardContents, o \in Outcomes :
          IF o = "ok"
          THEN LET g == GrabClipboard(c)
               IN  /\ grabbed' = g
                   /\ log' = Append(log, "call:grabclipboard")
                   /\ UNCHANGED <<exc, failed>>
                   /\ CASE g.kind = "None"  -> img' = "None" /\ pc' = "check_img"
                        [] g.kind = "Image" -> img' = "Image" /\ pc' = "check_img"
                        [] g.kind = "list"  ->
                             IF Len(g.paths) > 0 /\ HasImageExt(g.paths[1])
                             THEN img' = img /\ pc' = "open"
                             ELSE img' = "None" /\ pc' = "check_img"
          ELSE /\ grabbed' = grabbed
               /\ IF ReaderHandles(o)
                  THEN /\ log' = log \o <<"call:grabclipboard", "print:reader_error">>
                       /\ img' = "None"
                       /\ pc' = "check_img"
                       /\ exc' = exc
                       /\ failed' = failed \cup {<<"grabclipboard", o>>}
                  ELSE /\ log' = Append(log, "call:grabclipboard")
                       /\ img' = img
                       /\ Propagate("grabclipboard", o)
    /\ UNCHANGED <<argv, mode, content, opened, decoded, results, clipText,
                   confirmCount, encodeVars, printed, exitCode>>

\* get_clipboard_image(): Image.open(img[0])
Open ==
    /\ pc = "open"
    /\ opened' = Append(opened, grabbed.paths[1])
    /\ \E o \in Outcomes :
          IF o = "ok"
          THEN /\ log' = Append(log, "call:Image.open")
               /\ img' = "Image"
               /\ pc' = "check_img"
               /\ UNCHANGED <<exc, failed>>
          ELSE IF ReaderHandles(o)
               THEN /\ log' = log \o <<"call:Image.open", "print:reader_error">>
                    /\ img' = "None"
                    /\ pc' = "check_img"
                    /\ exc' = exc
                    /\ failed' = failed \cup {<<"Image.open", o>>}
               ELSE /\ log' = Append(log, "call:Image.open")
                    /\ img' = img
                    /\ Propagate("Image.open", o)
    /\ UNCHANGED <<argv, mode, content, grabbed, decoded, results, clipText,
                   confirmCount, encodeVars, printed, exitCode>>

\* main(): if img is None: print the usage lines and return
CheckImg ==
    /\ pc = "check_img"
    /\ IF img = "None"
       THEN /\ log' = Append(log, "print:usage")
            /\ pc' = "done"
            /\ exitCode' = 0
       ELSE /\ log' = log
            /\ pc' = "decode"
            /\ exitCode' = exitCode
    /\ UNCHANGED <<argv, mode, content, decodeVars, encodeVars, printed, exc, failed>>

\* decode_qrcode(): pyzbar.decode(image) and the loop over its result
Decode ==
    /\ pc = "decode"
    /\ \E o \in Outcomes :
          IF o = "ok"
          THEN \E objs \in DecodedObjects :
                 /\ decoded' = objs
                 /\ exc' = exc
                 /\ pc' = "check_results"
                 /\ IF objs = <<>>
                    THEN /\ log' = log \o <<"call:pyzbar.decode", "print:no_qr">>
                         /\ results' = NoResults
                         /\ failed' = failed
                    ELSE LET r == DecodeAll(objs)
                         IN  IF r.ok
                             THEN /\ log' = Append(log, "call:pyzbar.decode")
                                  /\ results' = [isNone |-> FALSE, items |-> r.items]
                                  /\ failed' = failed
                             ELSE \* UnicodeDecodeError is an Exception
                                  /\ log' = log \o <<"call:pyzbar.decode", "print:decode_error">>
                                  /\ results' = NoResults
                                  /\ failed' = failed \cup {<<"utf8", "Exception">>}
          ELSE /\ decoded' = decoded
               /\ results' = results
               /\ IF DecoderHandles(o)
                  THEN /\ log' = log \o <<"call:pyzbar.decode", "print:decode_error">>
                       /\ pc' = "check_results"
                       /\ exc' = exc
                       /\ failed' = failed \cup {<<"pyzbar.decode", o>>}
                  ELSE /\ log' = Append(log, "call:pyzbar.decode")
                       /\ Propagate("pyzbar.decode", o)
    /\ UNCHANGED <<argv, mode, content, grabbed, opened, img, clipText,
                   confirmCount, encodeVars, printed, exitCode>>

\* main(): if results: join and print
CheckResults ==
    /\ pc = "check_results"
    /\ IF ~results.isNone /\ Len(results.items) > 0
       THEN LET text == Join(ResultsData(results.items), Newline)
            IN  /\ content' = text
                /\ printed' = Append(printed, text)
                /\ log' = Append(log, "print:text")
                /\ pc' = "copy"
                /\ exitCode' = exitCode
       ELSE /\ pc' = "done"
            /\ exitCode' = 0
            /\ UNCHANGED <<content, printed, log>>
    /\ UNCHANGED <<argv, mode, decodeVars, encodeVars, exc, failed>>

\* main(): pyperclip.copy(content) and the confirmation
Copy ==
    /\ pc = "copy"
    /\ \E o \in Outcomes :
          IF o = "ok"
          THEN /\ clipText' = Append(clipText, content)
               /\ confirmCount' = Append(confirmCount, Len(results.items))
               /\ log' = log \o <<"call:pyperclip.copy", "print:decode_ok">>
               /\ pc' = "done"
               /\ exitCode' = 0
               /\ UNCHANGED <<exc, failed>>
          ELSE /\ log' = Append(log, "call:pyperclip.copy")
               /\ Propagate("pyperclip.copy", o)
               /\ UNCHANGED <<clipText, confirmCount, exitCode>>
    /\ UNCHANGED <<argv, mode, content, grabbed, opened, img, decoded, results,
                   encodeVars, printed>>

\* __main__: except KeyboardInterrupt / except Exception
TopHandler ==
    /\ pc = "top_handler"
    /\ log' = Append(log, IF exc = "KeyboardInterrupt" THEN "print:exit_notice"
                          ELSE "print:top_error")
    /\ pc' = "done"
    /\ exitCode' = 0
    /\ UNCHANGED <<argv, mode, content, decodeVars, encodeVars, printed, exc, failed>>

\* ---------------------------------------------------------------- encode path
OSes == {"Windows", "Darwin", "Linux"}

\* an exception raised inside the try block of generate_and_copy_qr
RaiseInGenerate(site, e) ==
    /\ pc' = "gen_except"
    /\ exc' = e
    /\ failed' = failed \cup {<<site, e>>}

\* generate_and_copy_qr(): QRCode(border=2), add_data(text), make(fit=True)
GenEncode ==
    /\ pc = "gen_encode"
    /\ encText' = Append(encText, content)
    /\ log' = Append(log, "call:QRCode")
    /\ \E o \in Outcomes :
          IF o = "ok"
          THEN pc' = "gen_print" /\ UNCHANGED <<exc, failed>>
          ELSE RaiseInGenerate("QRCode", o)
    /\ UNCHANGED <<argv, mode, content, decodeVars, curr_os, handle, opens, closes,
                   clipImage, writerOutcome, printed, exitCode>>

\* generate_and_copy_qr(): print(text); qr.print_ascii(invert=True)
GenPrint ==
    /\ pc = "gen_print"
    /\ printed' = Append(printed, content)
    /\ \E o \in Outcomes :
          IF o = "ok"
          THEN /\ log' = log \o <<"print:text", "call:print_ascii", "print:ascii">>
               /\ pc' = "gen_image"
               /\ UNCHANGED <<exc, failed>>
          ELSE /\ log' = log \o <<"print:text", "call:print_ascii">>
               /\ RaiseInGenerate("print_ascii", o)
    /\ UNCHANGED <<argv, mode, content, decodeVars, encodeVars, exitCode>>

\* generate_and_copy_qr(): qr.make_image(...), img.save(output, format='PNG')
GenImage ==
    /\ pc = "gen_image"
    /\ log' = Append(log, "call:make_image")
    /\ \E o \in Outcomes :
          IF o = "ok"
          THEN pc' = "writer" /\ UNCHANGED <<exc, failed>>
          ELSE RaiseInGenerate("make_image", o)
    /\ UNCHANGED <<argv, mode, content, decodeVars, encodeVars, printed, exitCode>>

\* send_to_clipboard(): platform.system() and the branch on it
WriterStart ==
    /\ pc = "writer"
    /\ log' = Append(log, "call:send_to_clipboard")
    /\ \E sys \in OSes :
          /\ curr_os' = sys
          /\ CASE sys = "Windows" -> pc' = "win_convert" /\ writerOutcome' = writerOutcome
               [] sys = "Darwin"  -> pc' = "mac_save" /\ writerOutcome' = writerOutcome
               [] OTHER           -> pc' = "gen_confirm" /\ writerOutcome' = "noop"
    /\ UNCHANGED <<argv, mode, content, decodeVars, encText, handle, opens, closes,
                   clipImage, printed, exc, failed, exitCode>>

\* send_to_clipboard(), Windows: convert("RGB").save(output, "BMP"), [14:],
\* import win32clipboard
WinConvert ==
    /\ pc = "win_convert"
    /\ \E o \in Outcomes :
          IF o = "ok"
          THEN pc' = "win_open" /\ UNCHANGED <<exc, failed, writerOutcome>>
          ELSE RaiseInGenerate("bmp", o) /\ writerOutcome' = "raised"
    /\ UNCHANGED <<argv, mode, content, decodeVars, encText, curr_os, handle, opens,
                   closes, clipImage, log, printed, exitCode>>

\* win32clipboard.OpenClipboard()
WinOpen ==
    /\ pc = "win_open"
    /\ log' = Append(log, "call:OpenClipboard")
    /\ \E o \in {"ok", "Exception"} :
          IF o = "ok"
          THEN /\ handle' = "open"
               /\ opens' = opens + 1
               /\ pc' = "win_empty"
               /\ UNCHANGED <<exc, failed, writerOutcome>>
          ELSE /\ RaiseInGenerate("OpenClipboard", o)
               /\ writerOutcome' = "raised"
               /\ UNCHANGED <<handle, opens>>
    /\ UNCHANGED <<argv, mode, content, decodeVars, encText, curr_os, closes,
                   clipImage, printed, exitCode>>

\* try: win32clipboard.EmptyClipboard()
WinEmpty ==
    /\ pc = "win_empty"
    /\ log' = Append(log, "call:EmptyClipboard")
    /\ \E o \in Outcomes :
          IF o = "ok"
          THEN pc' = "win_set" /\ UNCHANGED <<exc, failed>>
          ELSE /\ pc' = "win_finally"
               /\ exc' = o
               /\ failed' = failed \cup {<<"EmptyClipboard", o>>}
    /\ UNCHANGED <<argv, mode, content, decodeVars, encodeVars, printed, exitCode>>

\* win32clipboard.SetClipboardData(win32clipboard.CF_DIB, data)
WinSet ==
    /\ pc = "win_set"
    /\ log' = Append(log, "call:SetClipboardData")
    /\ pc' = "win_finally"
    /\ \E o \in Outcomes :
          IF o = "ok"
          THEN clipImage' = TRUE /\ UNCHANGED <<exc, failed>>
          ELSE /\ clipImage' = clipImage
               /\ exc' = o
               /\ failed' = failed \cup {<<"SetClipboardData", o>>}
    /\ UNCHANGED <<argv, mode, content, decodeVars, encText, curr_os, handle, opens,
                   closes, writerOutcome, printed, exitCode>>

CloseClipboardSkippedOnError(h, e) == IF e = "none" THEN "closed" ELSE h

\* finally: win32clipboard.CloseClipboard(), on the normal and the
\* exceptional exit of the try block alike
CloseClipboard(h, e) == "closed"

WinFinally ==
    /\ pc = "win_finally"
    /\ handle' = CloseClipboard(handle, exc)
    /\ closes' = IF handle' = handle THEN closes ELSE closes + 1
    /\ log' = Append(log, "call:CloseClipboard")
    /\ IF exc = "none"
       THEN pc' = "gen_confirm" /\ writerOutcome' = "placed"
       ELSE pc' = "gen_except" /\ writerOutcome' = "raised"
    /\ UNCHANGED <<argv, mode, content, decodeVars, encText, curr_os, opens,
                   clipImage, printed, exc, failed, exitCode>>

\* send_to_clipboard(), macOS: image.save(output, format="PNG")
MacSave ==
    /\ pc = "mac_save"
    /\ \E o \in Outcomes :
          IF o = "ok"
          THEN pc' = "mac_popen" /\ UNCHANGED <<exc, failed, writerOutcome>>
          ELSE RaiseInGenerate("png", o) /\ writerOutcome' = "raised"
    /\ UNCHANGED <<argv, mode, content, decodeVars, encText, curr_os, handle, opens,
                   closes, clipImage, log, printed, exitCode>>

\* subprocess.Popen(['pbcopy', '-Prefer', 'png'], stdin=subprocess.PIPE)
MacPopen ==
    /\ pc = "mac_popen"
    /\ log' = Append(log, "call:Popen")
    /\ \E o \in Outcomes :
          IF o = "ok"
          THEN pc' = "mac_communicate" /\ UNCHANGED <<exc, failed, writerOutcome>>
          ELSE RaiseInGenerate("Popen", o) /\ writerOutcome' = "raised"
    /\ UNCHANGED <<argv, mode, content, decodeVars, encText, curr_os, handle, opens,
                   closes, clipImage, printed, exitCode>>

\* p.communicate(input=data): the exit status of pbcopy is not read
MacCommunicate ==
    /\ pc = "mac_communicate"
    /\ log' = Append(log, "call:communicate")
    /\ \E o \in {"exit0", "exit1", "Exception", "KeyboardInterrupt"} :
          CASE o = "exit0" -> /\ clipImage' = TRUE
                              /\ writerOutcome' = "placed"
                              /\ pc' = "gen_confirm"
                              /\ UNCHANGED <<exc, failed>>
            [] o = "exit1" -> /\ clipImage' = clipImage
                              /\ writerOutcome' = "subprocess_failed"
                              /\ pc' = "gen_confirm"
                              /\ exc' = exc
                              /\ failed' = failed \cup {<<"pbcopy", "exit1">>}
            [] OTHER       -> /\ clipImage' = clipImage
                              /\ writerOutcome' = "raised"
                              /\ RaiseInGenerate("communicate", o)
    /\ UNCHANGED <<argv, mode, content, decodeVars, encText, curr_os, handle, opens,
                   closes, printed, exitCode>>

ConfirmOnlyWhenPlaced(w) == w = "placed"

\* whether the confirmation follows the return of send_to_clipboard(img):
\* the call's result is not looked at
ConfirmAfterWriter(w) == TRUE

\* generate_and_copy_qr(): the confirmation after send_to_clipboard returned
GenConfirm ==
    /\ pc = "gen_confirm"
    /\ log' = IF ConfirmAfterWriter(writerOutcome)
              THEN Append(log, "print:gen_ok") ELSE log
    /\ pc' = "done"
    /\ exitCode' = 0
    /\ UNCHANGED <<argv, mode, content, decodeVars, encodeVars, printed, exc, failed>>

\* generate_and_copy_qr(): except Exception as e
GenExcept ==
    /\ pc = "gen_except"
    /\ IF GenerateHandles(exc)
       THEN /\ log' = Append(log, "print:gen_fail")
            /\ pc' = "done"
            /\ exitCode' = 0
       ELSE /\ log' = log
            /\ pc' = "top_handler"
            /\ exitCode' = exitCode
    /\ UNCHANGED <<argv, mode, content, decodeVars, encodeVars, printed, exc, failed>>

Next ==
    \/ Dispatch
    \/ Grab
    \/ Open
    \/ CheckImg
    \/ Decode
    \/ CheckResults
    \/ Copy
    \/ TopHandler
    \/ GenEncode
    \/ GenPrint
    \/ GenImage
    \/ WriterStart
    \/ WinConvert
    \/ WinOpen
    \/ WinEmpty
    \/ WinSet
    \/ WinFinally
    \/ MacSave
    \/ MacPopen
    \/ MacCommunicate
    \/ GenConfirm
    \/ GenExcept

Spec == Init /\ [][Next]_vars
\* ---------------------------------------------------------------- properties
InLog(e) == \E i \in 1..Len(log) : log[i] = e

\* position of the first occurrence of e in the log, 0 when absent
Pos(e) == IF InLog(e) THEN CHOOSE i \in 1..Len(log) : log[i] = e /\ \A j \in 1..(i - 1) : log[j] # e
          ELSE 0

FailedAt(site) == \E k \in {"Exception", "KeyboardInterrupt", "exit1"} : <<site, k>> \in failed

\* text is exactly parts[1] sep parts[2] sep ... parts[n], stated by offsets
Offset(parts, i) ==
    LET RECURSIVE sum(_)
        sum(j) == IF j = 0 THEN 0 ELSE Len(parts[j]) + 1 + sum(j - 1)
    IN  sum(i - 1)

IsJoinOf(text, parts, sep) ==
    /\ Len(text) = IF parts = <<>> THEN 0 ELSE Offset(parts, Len(parts) + 1) - 1
    /\ \A i \in 1..Len(parts) :
          /\ SubSeq(text, Offset(parts, i) + 1, Offset(parts, i) + Len(parts[i])) = parts[i]
          /\ i > 1 => text[Offset(parts, i)] = sep

\* payloads over Bytes that are well-formed UTF-8, and their text, stated
\* directly: 195 must be followed by 169, 169 must follow 195; the pair is U+00E9
ValidPayload(bs) ==
    \A i \in 1..Len(bs) :
       /\ bs[i] = 195 => (i < Len(bs) /\ bs[i + 1] = 169)
       /\ bs[i] = 169 => (i > 1 /\ bs[i - 1] = 195)

NotContinuation(b) == b # 169

PayloadText(bs) ==
    LET kept == SelectSeq(bs, NotContinuation)
    IN  [i \in 1..Len(kept) |-> IF kept[i] = 195 THEN 233 ELSE kept[i]]

DecoderReturned == InLog("call:pyzbar.decode") /\ ~FailedAt("pyzbar.decode")

AllPayloadsValid == \A i \in 1..Len(decoded) : ValidPayload(decoded[i].data)

ExpectedTexts == [i \in 1..Len(decoded) |-> PayloadText(decoded[i].data)]

\* C1 as stated: in decode mode text is written to the clipboard exactly
\* when the decoder returned at least one symbol.
C1_Original ==
    (pc = "done" /\ DecoderReturned) => (clipText # <<>> <=> Len(decoded) >= 1)

\* C1 (amended): at the end of a decode run in which the decoder returned,
\* text is written to the clipboard exactly when there is at least one
\* symbol, every payload is valid UTF-8 and the text copy does not fail; the
\* text written and printed is the payloads joined by one newline in the
\* returned order, and the confirmation reports the number of symbols.  With
\* zero symbols the 'no QR code' notice is printed and nothing is written or
\* confirmed.
C1_Amended ==
    (pc = "done" /\ DecoderReturned) =>
       /\ clipText # <<>> <=>
             (Len(decoded) >= 1 /\ AllPayloadsValid /\ ~FailedAt("pyperclip.copy"))
       /\ InLog("print:decode_ok") <=> clipText # <<>>
       /\ clipText # <<>> =>
             /\ Len(clipText) = 1
             /\ IsJoinOf(clipText[1], ExpectedTexts, Newline)
             /\ printed = clipText
             /\ confirmCount = <<Len(decoded)>>
             /\ Pos("print:text") < Pos("call:pyperclip.copy")
             /\ Pos("call:pyperclip.copy") < Pos("print:decode_ok")
       /\ decoded = <<>> =>
             /\ InLog("print:no_qr")
             /\ clipText = <<>>
             /\ confirmCount = <<>>

C1_Witness ==
    /\ pc = "done"
    /\ Len(decoded) = 2
    /\ decoded[1].data = <<195, 169>>
    /\ decoded[2].data = <<65>>
    /\ clipText = << <<233, Newline, 65>> >>
    /\ confirmCount = <<2>>

\* expected result of the extension test on each sample file name
ExpectedImagePaths == {a_png, A_PNG, b_JpG, c_jpeg, d_bmp, e_gif}

ReaderReturned == img # "unset"

\* C2: for a file-path list the reader opens at most the first entry, returns
\* an image only if that entry ends (case-insensitively) in an image
\* extension, and for an empty list or another extension returns Empty
\* without opening any file, whatever the later entries are.
C2_FirstEntryFilter ==
    grabbed.kind = "list" =>
       /\ Len(opened) <= 1
       /\ opened # <<>> => (grabbed.paths # <<>> /\ opened[1] = grabbed.paths[1])
       /\ img = "Image" =>
             (grabbed.paths # <<>> /\ grabbed.paths[1] \in ExpectedImagePaths)
       /\ (grabbed.paths = <<>> \/ grabbed.paths[1] \notin ExpectedImagePaths) =>
             (img = "None" /\ opened = <<>> /\ ~InLog("call:Image.open"))

C2_Witness ==
    /\ pc = "done"
    /\ grabbed.kind = "list"
    /\ grabbed.paths = <<f_txt, a_png>>
    /\ img = "None"
    /\ opened = <<>>

\* C3: the reader returns Empty, without raising, for an empty clipboard, a
\* non-image clipboard, a failed clipboard access and a failed image open
\* (printing an error line for the failures); an Empty result ends the run
\* with the usage text, with no decoder call and no clipboard write.
C3_ReaderNeverRaises ==
    /\ grabbed.clip \in {"empty", "text"} => img = "None"
    /\ (<<"grabclipboard", "Exception">> \in failed \/ <<"Image.open", "Exception">> \in failed) =>
          /\ img = "None"
          /\ InLog("print:reader_error")
          /\ ~(pc = "top_handler" /\ exc = "Exception")
    /\ img = "None" =>
          /\ pc \in {"check_img", "done"}
          /\ ~InLog("call:pyzbar.decode")
          /\ ~InLog("call:pyperclip.copy")
          /\ clipText = <<>>
          /\ clipImage = FALSE
          /\ pc = "done" => (InLog("print:usage") /\ exitCode = 0)

C3_Witness ==
    /\ pc = "done"
    /\ img = "None"
    /\ <<"Image.open", "Exception">> \in failed
    /\ log = <<"call:grabclipboard", "call:Image.open", "print:reader_error", "print:usage">>

DecodeCalls == {"call:grabclipboard", "call:Image.open", "call:pyzbar.decode",
                "call:pyperclip.copy"}
EncodeCalls == {"call:QRCode", "call:print_ascii", "call:make_image",
                "call:send_to_clipboard", "call:OpenClipboard", "call:Popen"}

C4_State ==
    /\ mode # "unset" => (mode = "Encode" <=> Len(argv) >= 1)
    /\ mode = "Encode" =>
          /\ \A e \in DecodeCalls : ~InLog(e)
          /\ clipText = <<>>
          /\ Len(encText) <= 1
          /\ \A i \in 1..Len(encText) : IsJoinOf(encText[i], argv, Space)
          /\ (argv = <<hello, world>> /\ encText # <<>>) =>
                encText[1] = <<104, 101, 108, 108, 111, 32, 119, 111, 114, 108, 100>>
    /\ mode = "Decode" =>
          /\ \A e \in EncodeCalls : ~InLog(e)
          /\ encText = <<>>
          /\ clipImage = FALSE

\* C4: the mode is fixed by the argument count and never changes; with
\* arguments only the encode path runs and the encoder receives the arguments
\* joined by single spaces; without arguments only the decode path runs.
C4_ModeChosenOnce ==
    /\ []C4_State
    /\ [][mode # "unset" => mode' = mode]_vars

C4_Witness ==
    /\ pc = "done"
    /\ mode = "Encode"
    /\ argv = <<hello, world>>
    /\ encText = << <<104, 101, 108, 108, 111, 32, 119, 111, 114, 108, 100>> >>

\* C5: when a returned symbol's payload is not valid UTF-8 a decode-error
\* message is printed and no joined text is printed, nothing is copied to the
\* clipboard and no symbol count is confirmed.
C5_InvalidPayloadSurfaced ==
    (DecoderReturned /\ ~AllPayloadsValid) =>
       /\ InLog("print:decode_error")
       /\ printed = <<>>
       /\ ~InLog("print:text")
       /\ ~InLog("call:pyperclip.copy")
       /\ clipText = <<>>
       /\ confirmCount = <<>>
       /\ ~InLog("print:decode_ok")

C5_Witness ==
    /\ pc = "done"
    /\ Len(decoded) = 2
    /\ decoded[1].data = <<65>>
    /\ decoded[2].data = <<195>>
    /\ InLog("print:decode_error")

WinWriterExited ==
    /\ curr_os = "Windows"
    /\ pc \in {"gen_confirm", "gen_except", "top_handler", "done"}

C7_UnsupportedFailsExplicitly ==
    (pc = "done" /\ curr_os \notin {"unset", "Windows", "Darwin"}) =>
       (writerOutcome = "raised" /\ ~InLog("print:gen_ok"))

FailureMessages == {"print:reader_error", "print:decode_error", "print:gen_fail",
                    "print:top_error", "print:exit_notice"}

FailureReported == \E m \in FailureMessages : InLog(m)

Before(a, b) == InLog(b) => (InLog(a) /\ Pos(a) < Pos(b))

C8_Order ==
    mode = "Encode" =>
       /\ Before("call:QRCode", "print:text")
       /\ Before("print:text", "print:ascii")
       /\ Before("print:ascii", "call:send_to_clipboard")
       /\ Before("call:send_to_clipboard", "print:gen_ok")

C8_EncoderRejects ==
    (pc = "done" /\ <<"QRCode", "Exception">> \in failed) =>
       (log = <<"call:QRCode", "print:gen_fail">> /\ printed = <<>> /\ exitCode = 0)

\* C8 as stated: the encode steps happen in the fixed order; whenever the
\* writer fails the text and the grid are already printed, the failure is
\* reported and the run ends normally; when the encoder rejects the input
\* only the failure message is printed and the writer is not called.
C8_EncodeOrderAndReporting ==
    /\ C8_Order
    /\ C8_EncoderRejects
    /\ (pc = "done" /\ writerOutcome \in {"raised", "subprocess_failed"}) =>
          /\ InLog("print:text")
          /\ InLog("print:ascii")
          /\ FailureReported
          /\ exitCode = 0

\* C9 as stated: whichever external call fails, or on an interrupt, a message
\* reporting it is printed and the run ends normally with exit code 0.
C9_EveryFailureReported ==
    /\ pc = "done" => exitCode = 0
    /\ (pc = "done" /\ failed # {}) => FailureReported

\* C10 as stated: once the writer has been called the success confirmation
\* is printed, whatever the writer's outcome.
C10_Original ==
    (pc = "done" /\ InLog("call:send_to_clipboard")) => InLog("print:gen_ok")

\* C10 (amended): once the writer has been called, the success confirmation
\* is printed exactly when the writer returns without raising (image placed,
\* pbcopy exited with failure, unsupported-platform no-op); when the writer
\* raises, the failure is printed instead and no success confirmation.
C10_Amended ==
    (pc = "done" /\ InLog("call:send_to_clipboard")) =>
       /\ writerOutcome \in {"placed", "subprocess_failed", "noop", "raised"}
       /\ InLog("print:gen_ok") <=> writerOutcome \in {"placed", "subprocess_failed", "noop"}
       /\ writerOutcome = "raised" => FailureReported

C10_Witness ==
    /\ pc = "done"
    /\ writerOutcome = "subprocess_failed"
    /\ clipImage = FALSE
    /\ InLog("print:gen_ok")

====
